---- MODULE Spec2Model ----
(***************************************************************************)
(* Backup / restore pipeline of backup_opencode.py: collect() stages the   *)
(* three OpenCode directories, writes them into a zip archive (external    *)
(* `zip -P` when a password is given, Python's zipfile otherwise) and      *)
(* removes the staging tree; export() extracts an archive into a temporary *)
(* tree (external `unzip -P`, then zipfile, when a password is given) and  *)
(* replaces the three destination directories.                             *)
(*                                                                         *)
(* Three specifications share the module:                                  *)
(*   Spec          one collect followed by one export, each alone in its   *)
(*                 working directory;                                      *)
(*   SpecShared    two invocations of collect from one working directory,  *)
(*                 for the naming of the staging tree;                     *)
(*   SpecDownload  download_claude() of download_binaries.py.              *)
(* Each leaves the variables of the other two at their initial values.     *)
(*                                                                         *)
(* A directory is a record [ex, nodes]: ex says whether it exists, nodes   *)
(* is its content as a set of <<relative path, data>> pairs; a directory   *)
(* node has data "dir", a file node carries the file's bytes.              *)
(* An archive is a record [ex, ok, entries]: ok says it is a readable zip, *)
(* entries is a set of <<top, path, data, key>>: top is the first          *)
(* component of the entry's name (a slot folder), path the rest of the     *)
(* name ("." for the entry of the top folder itself); key 0 is an          *)
(* unencrypted entry, key p > 0 an entry encrypted with password p.        *)
(* Every step that touches the file system or runs an external tool can    *)
(* fail: the failing branch of each action is the exception Python raises. *)
(***************************************************************************)
EXTENDS Integers, Sequences, FiniteSets, TLC

\* Passwords are 1..MaxPw; 0 stands for None (no -p option).
MaxPw == 2

Passwords == 0..MaxPw

\* A restore that handles the cache before the configuration.
SlotOrderSwapped == <<"cache", "config", "bun_cache">>

\* get_opencode_dirs(): the three slots, in the order the code handles them;
\* the names are the archive-internal folder names.
SlotOrder == <<"config", "cache", "bun_cache">>

Slots == {SlotOrder[k] : k \in 1..Len(SlotOrder)}

NoDir == [ex |-> FALSE, nodes |-> {}]

Dir(n) == [ex |-> TRUE, nodes |-> n]

\* The directory holding a relative path ("." is the slot's top folder).
ParentOf(p) == IF p = "pkg/x.tgz" THEN "pkg" ELSE "."

\* Directories a source slot may be: absent, empty, files only, files and
\* an empty sub-directory.
SrcFiles == {<<"a.json", "new">>, <<"pkg", "dir">>, <<"pkg/x.tgz", "new">>}

SourceDirs == {NoDir, Dir({}), Dir(SrcFiles), Dir(SrcFiles \cup {<<"empty", "dir">>})}

\* Directories a destination slot may be before export: absent, or holding
\* another version of a.json and a file the backup does not have.
DestDirs == {NoDir, Dir({<<"a.json", "old">>, <<"old.txt", "old">>})}

NoArchive == [ex |-> FALSE, ok |-> FALSE, entries |-> {}]

\* What may already be at the output path when collect writes (-o may name a
\* file that exists): nothing, or the archive an earlier `collect -p 1` left
\* there, made when the config directory held old.txt.
StaleArchive == [ex |-> TRUE, ok |-> TRUE,
                 entries |-> {<<"config", ".", "dir", 0>>, <<"config", "old.txt", "old", 1>>}]

OutputFiles == {NoArchive, StaleArchive}

\* collect's argument output_file: None, a path relative to the working
\* directory (b.zip), an absolute path (/data/b.zip).
OutputArgs == {"none", "relative", "absolute"}

\* zip_filename = output_file if output_file else opencode_backup_<timestamp>.zip
ZipFilename(o) == IF o = "none" THEN "opencode_backup_ts.zip" ELSE o

\* The file `zip ... f"../{zip_filename}"` run with cwd=backup_dir writes:
\* for a relative name, the file zip_filename names from the working
\* directory; for an absolute name "/data/b.zip" the argument is
\* "..//data/b.zip", the file data/b.zip BELOW the working directory, which
\* is the file zip_filename names only when the working directory is "/".
ZipTargets(name) ==
  IF name = "absolute" THEN {"zip_filename", "cwd+zip_filename"} ELSE {"zip_filename"}

NoTree == [ex |-> FALSE, sub |-> [s \in Slots |-> NoDir]]

EmptyTree == [ex |-> TRUE, sub |-> [s \in Slots |-> NoDir]]

VARIABLES
  src,              \* the three source directories on the machine collect runs on
  dst,              \* the three destination directories on the machine export runs on
  parent,           \* slots whose destination's parent directory exists
  backup_dir,       \* collect's staging tree opencode_backup_<timestamp>
  archive,          \* the file at zip_filename / zip_file
  temp_dir,         \* export's tree opencode_restore_<timestamp>
  password,         \* the running call's local variable password (0 = None)
  opencode_release, \* collect's local: what the release download returned
  i,                \* index in SlotOrder of the slot being handled
  extract,          \* export's extraction: "none", "ok", "failed"
  pending,          \* how the try block ended: "none", "return", "raise"
  cres,             \* how collect ended
  eres,             \* how export ended
  pc,               \* position of the running call
  dst0,             \* dst as it was before export (never written)
  parent0,          \* parent as it was before export (never written)
  cpw,              \* the password collect was called with (never written)
  output_file,      \* collect's argument output_file: "none", "relative", "absolute"
  written,          \* the file collect's archive writer wrote to, if any
  aes_available     \* an AES-capable zip backend is installed where collect runs

mainVars == <<output_file, written, aes_available, src, dst, parent, backup_dir,
              archive, temp_dir, password, opencode_release, i, extract, pending,
              cres, eres, pc, dst0, parent0, cpw>>

\* Invocations of collect sharing one working directory (section "Overlapping
\* invocations of collect").
VARIABLES
  clock,            \* the wall clock, in ticks of half a second
  timestamp,        \* per invocation: its local timestamp (-1: not taken yet)
  staging,          \* per timestamp: the directory opencode_backup_<timestamp>
  at,               \* per invocation: index in SlotOrder of the slot it is at
  spc,              \* per invocation: its position
  spending,         \* per invocation: how its try block ended
  zipped,           \* per invocation: the staged items its archive writer read
  removed           \* per invocation: the staged items its cleanup deleted

sharedVars == <<clock, timestamp, staging, at, spc, spending, zipped, removed>>

\* download_claude() of download_binaries.py (section "download_claude").
VARIABLES
  dpc,              \* position of the running download_claude
  checksum,         \* its local checksum: the manifest's entry for win32-x64
  served,           \* the bytes the bucket serves as claude.exe
  claude_exe,       \* the file claude.exe in the working directory
  dres              \* what download_claude returned

downloadVars == <<dpc, checksum, served, claude_exe, dres>>

otherVars == <<sharedVars, downloadVars>>

vars == <<mainVars, otherVars>>

----------------------------------------------------------------------------
(* Archive codec *)

\* The files and directories of the staging tree, as <<slot, path, data>>.
StagedNodes(tree) == UNION {{<<s, n[1], n[2]>> : n \in tree.sub[s].nodes} : s \in Slots}

\* The staging tree's own name, opencode_backup_<timestamp>.
BackupDirName == "opencode_backup_ts"

\* The path of a staged node as the archive writers meet it: the staging
\* tree's name, the slot folder, the path below the slot folder.
StagedPath(n) == <<BackupDirName, n[1], n[2]>>

\* arcname = file_path.relative_to(backup_dir): the staging tree's name is cut
\* off; what is left is <<slot folder, path below it>>.
ArcName(fp) == <<fp[2], fp[3]>>

\* zip -r ... "." run with cwd=backup_dir: names are relative to the staging
\* tree, and zip drops the leading "./".
CwdName(fp) == <<fp[2], fp[3]>>

\* zipfile.ZipFile(zip_filename, 'w') over os.walk(backup_dir): one entry per
\* FILE, named by its path relative to the staging tree; never encrypted.
PlainEntries(tree) ==
  {<<ArcName(StagedPath(n))[1], ArcName(StagedPath(n))[2], n[3], 0>> :
     n \in {m \in StagedNodes(tree) : m[3] # "dir"}}

\* zip -r -P password ../zip_filename . : one entry per file, encrypted, and one
\* per directory (the slot folders included), which carries no data.
ZipEntries(tree, pw) ==
  {<<CwdName(StagedPath(n))[1], CwdName(StagedPath(n))[2], n[3],
     IF n[3] = "dir" THEN 0 ELSE pw>> : n \in StagedNodes(tree)}
  \cup {<<CwdName(StagedPath(<<s, ".">>))[1], ".", "dir", 0>> :
          s \in {r \in Slots : tree.sub[r].ex}}

\* zip's default mode is "add": when the archive named on its command line
\* exists, entries with the same name are replaced and all other entries are
\* kept; the code does not remove the file first.
ZipUpdate(old, new) ==
  [ex |-> TRUE, ok |-> TRUE,
   entries |-> new \cup {e \in old.entries : ~ \E f \in new : f[1] = e[1] /\ f[2] = e[2]}]

\* ZipFile(..., 'w') truncates what is at the output path.
PlainWrite(old, new) == [ex |-> TRUE, ok |-> TRUE, entries |-> new]

\* An archive whose writing was cut short.
BrokenArchive == [ex |-> TRUE, ok |-> FALSE, entries |-> {}]

\* The entries a reader holding password pw (0: none) can decode.
Decodable(a, pw) == {e \in a.entries : e[4] = 0 \/ e[4] = pw}

\* unzip -P pw: exit status 0 iff the file is a zip archive, is not empty and
\* every entry could be decoded.
UnzipOk(a, pw) == a.ok /\ a.entries # {} /\ Decodable(a, pw) = a.entries

\* zipfile.extractall(pwd=pw) / extractall(): raises on the first entry it
\* cannot decode, and on a file that is no zip archive.
ZipfileOk(a, pw) == a.ok /\ Decodable(a, pw) = a.entries

\* The directory tree that extracting the entries es creates: a slot folder for
\* every slot with an entry, the entries' nodes and the folders leading to them.
Extracted(es) ==
  [ex |-> TRUE,
   sub |-> [s \in Slots |->
     IF \E e \in es : e[1] = s
     THEN Dir({<<e[2], e[3]>> : e \in {f \in es : f[1] = s /\ f[2] # "."}}
              \cup {<<ParentOf(e[2]), "dir">> :
                      e \in {f \in es : f[1] = s /\ f[2] # "." /\ ParentOf(f[2]) # "."}})
     ELSE NoDir]]

\* Extracting into a tree that already holds an earlier (partial) extraction.
ExtractInto(tree, es) ==
  [ex |-> TRUE,
   sub |-> [s \in Slots |->
     IF tree.sub[s].ex \/ Extracted(es).sub[s].ex
     THEN Dir(tree.sub[s].nodes \cup Extracted(es).sub[s].nodes)
     ELSE NoDir]]

----------------------------------------------------------------------------
(* Shared control flow *)

\* A cleanup placed after the try block instead of in a finally clause.
RunsCleanupOnSuccess(pend, tree) == tree.ex /\ pend = "return"

\* finally: `if backup_dir.exists(): shutil.rmtree(backup_dir)`: the cleanup
\* runs on every way out of the try block, when the tree exists.
RunsCleanup(pend, tree) == tree.ex

\* What the call ends with when the cleanup did not raise.
Outcome(pend) == IF pend = "return" THEN "returned" ELSE "primary_error"

\* An exception raised inside the finally block replaces whatever the try
\* block was ending with.
CleanupRaised(pend) == "cleanup_error"

\* shutil.rmtree raising part-way: the tree's top directory is still there.
Leftover(tree) == EmptyTree

\* The invocations' processes and the clock ticks considered.
Procs == {1, 2}

MaxClock == 3

\* datetime.now().strftime("%Y%m%d_%H%M%S"): the clock cut to whole seconds.
Stamp(c) == c \div 2

Stamps == {Stamp(c) : c \in 0..MaxClock}

NoStage == [ex |-> FALSE, items |-> {}]

\* No invocation has started.
SharedInit ==
  /\ clock = 0
  /\ timestamp = [p \in Procs |-> -1]
  /\ staging = [t \in Stamps |-> NoStage]
  /\ at = [p \in Procs |-> 1]
  /\ spc = [p \in Procs |-> "idle"]
  /\ spending = [p \in Procs |-> "none"]
  /\ zipped = [p \in Procs |-> {}]
  /\ removed = [p \in Procs |-> {}]

NoFile == [ex |-> FALSE, chunks |-> 0, body |-> 0, by |-> "nobody"]

\* download_claude has not been called.
DownloadIdle ==
  /\ dpc = "d_idle"
  /\ checksum = "unset"
  /\ served = 1
  /\ claude_exe = NoFile
  /\ dres = "none"

Init ==
  /\ src \in [Slots -> SourceDirs]
  /\ dst \in [Slots -> DestDirs]
  /\ parent = {s \in Slots : dst[s].ex}
  /\ archive \in OutputFiles
  /\ backup_dir = NoTree
  /\ temp_dir = NoTree
  /\ password = 0
  /\ opencode_release = "none"
  /\ i = 1
  /\ extract = "none"
  /\ pending = "none"
  /\ cres = "none"
  /\ eres = "none"
  /\ pc = "idle"
  /\ dst0 = dst
  /\ parent0 = parent
  /\ cpw = 0
  /\ output_file = "none"
  /\ written = "none"
  /\ aes_available = FALSE
  /\ SharedInit
  /\ DownloadIdle

----------------------------------------------------------------------------
(* collect(output_file, password) *)

CollectCall ==
  /\ pc = "idle"
  /\ \E p \in Passwords : password' = p /\ cpw' = p
  /\ \E o \in OutputArgs : output_file' = o /\ (archive.ex => o # "none")
  /\ \E a \in BOOLEAN : aes_available' = a
  /\ pc' = "c_download"
  /\ UNCHANGED <<otherVars, written, src, dst, parent, backup_dir, archive,
                 temp_dir, opencode_release, i, pending, cres, eres, extract,
                 dst0, parent0>>

\* A collect that gives up when no release could be downloaded.
AfterDownloadRequired(r) == IF r = "none" THEN "c_done" ELSE "c_mkdir"

\* opencode_release = download_opencode_windows_release(): the value is kept
\* for the closing message only; collect goes on to the try block.
AfterDownload(r) == "c_mkdir"

\* download_opencode_windows_release(): returns the downloaded path, or None
\* when there is no Windows asset or anything raised; it never raises.
DownloadRelease ==
  /\ pc = "c_download"
  /\ \E r \in {"none", "asset"} : opencode_release' = r /\ pc' = AfterDownload(r)
  /\ UNCHANGED <<otherVars, output_file, written, aes_available, src, dst,
                 parent, backup_dir, archive, temp_dir, password, i, pending,
                 cres, eres, extract, dst0, parent0, cpw>>

\* backup_dir.mkdir(exist_ok=True), first statement of the try block.
CollectMkdir ==
  /\ pc = "c_mkdir"
  /\ \/ /\ backup_dir' = EmptyTree
        /\ i' = 1
        /\ pc' = "c_copy"
        /\ UNCHANGED pending
     \/ /\ pending' = "raise"
        /\ pc' = "c_finally"
        /\ UNCHANGED <<backup_dir, i>>
  /\ UNCHANGED <<otherVars, output_file, written, aes_available, src, dst,
                 parent, archive, temp_dir, password, opencode_release, cres,
                 eres, extract, dst0, parent0, cpw>>

\* Where collect goes after the slot at index k.
AfterCopy(k) == IF k < Len(SlotOrder) THEN "c_copy"
                ELSE IF password # 0 THEN "c_zip" ELSE "c_plain"

\* if src.exists(): shutil.copytree(src, dest) else: warning.
CollectCopy ==
  /\ pc = "c_copy"
  /\ LET s == SlotOrder[i] IN
     \/ /\ src[s].ex
        /\ backup_dir' = [backup_dir EXCEPT !.sub[s] = src[s]]
        /\ i' = IF i < Len(SlotOrder) THEN i + 1 ELSE i
        /\ pc' = AfterCopy(i)
        /\ UNCHANGED pending
     \/ /\ ~ src[s].ex
        /\ i' = IF i < Len(SlotOrder) THEN i + 1 ELSE i
        /\ pc' = AfterCopy(i)
        /\ UNCHANGED <<backup_dir, pending>>
     \/ /\ src[s].ex               \* copytree raises part-way
        /\ backup_dir' = [backup_dir EXCEPT !.sub[s] = Dir({})]
        /\ pending' = "raise"
        /\ pc' = "c_finally"
        /\ UNCHANGED i
  /\ UNCHANGED <<otherVars, output_file, written, aes_available, src, dst,
                 parent, archive, temp_dir, password, opencode_release, cres,
                 eres, extract, dst0, parent0, cpw>>

\* if password: subprocess.run(["zip", "-r", "-P", password, ...], check=True)
\* except subprocess.CalledProcessError: password = None
CollectZip ==
  /\ pc = "c_zip"
  /\ \/ /\ ZipEntries(backup_dir, password) # {}       \* zip exits 0
        /\ \E t \in ZipTargets(ZipFilename(output_file)) :
             /\ written' = t
             /\ archive' = IF t = "zip_filename"
                           THEN ZipUpdate(archive, ZipEntries(backup_dir, password))
                           ELSE archive
        /\ pending' = "return"
        /\ pc' = "c_finally"
        /\ UNCHANGED password
     \/ /\ password' = 0                                \* zip exits non-zero:
        /\ pc' = "c_plain"                              \* CalledProcessError
        /\ UNCHANGED <<archive, pending, written>>
     \/ /\ pending' = "raise"                           \* zip cannot be run:
        /\ pc' = "c_finally"                            \* FileNotFoundError
        /\ UNCHANGED <<archive, password, written>>
  /\ UNCHANGED <<otherVars, output_file, aes_available, src, dst, parent,
                 backup_dir, temp_dir, opencode_release, i, cres, eres,
                 extract, dst0, parent0, cpw>>

\* if not password: zipfile.ZipFile(zip_filename, 'w', ZIP_DEFLATED) ...
CollectPlain ==
  /\ pc = "c_plain"
  /\ \/ /\ archive' = PlainWrite(archive, PlainEntries(backup_dir))
        /\ pending' = "return"
     \/ /\ archive' = BrokenArchive
        /\ pending' = "raise"
  /\ written' = "zip_filename"
  /\ pc' = "c_finally"
  /\ UNCHANGED <<otherVars, output_file, aes_available, src, dst, parent,
                 backup_dir, temp_dir, password, opencode_release, i, cres,
                 eres, extract, dst0, parent0, cpw>>

\* finally: if backup_dir.exists(): shutil.rmtree(backup_dir)
CollectFinally ==
  /\ pc = "c_finally"
  /\ \/ /\ RunsCleanup(pending, backup_dir)
        /\ backup_dir' = NoTree
        /\ cres' = Outcome(pending)
     \/ /\ RunsCleanup(pending, backup_dir)             \* rmtree raises
        /\ cres' = CleanupRaised(pending)
        /\ backup_dir' = Leftover(backup_dir)
     \/ /\ ~ RunsCleanup(pending, backup_dir)
        /\ cres' = Outcome(pending)
        /\ UNCHANGED backup_dir
  /\ pc' = "c_done"
  /\ UNCHANGED <<otherVars, output_file, written, aes_available, src, dst,
                 parent, archive, temp_dir, password, opencode_release, i,
                 pending, eres, extract, dst0, parent0, cpw>>

----------------------------------------------------------------------------
(* export(zip_file, password) *)

\* A new process: collect's locals are gone, the file system is as it was left.
ExportCall ==
  /\ pc = "c_done"
  /\ \E p \in Passwords : password' = p
  /\ opencode_release' = "none"
  /\ i' = 1
  /\ pending' = "none"
  /\ output_file' = "none"
  /\ aes_available' = FALSE
  /\ pc' = "e_check"
  /\ UNCHANGED <<otherVars, written, src, dst, parent, backup_dir, archive,
                 temp_dir, extract, cres, eres, dst0, parent0, cpw>>

\* An export that does not look for the archive first.
AnyPathExists(a) == TRUE

\* Path(zip_file).exists()
ArchiveExists(a) == a.ex

\* if not Path(zip_file).exists(): sys.exit(1), before the try block.
ExportCheck ==
  /\ pc = "e_check"
  /\ \/ /\ ~ ArchiveExists(archive)
        /\ eres' = "exit1"
        /\ pc' = "e_done"
     \/ /\ ArchiveExists(archive)
        /\ pc' = "e_mkdir"
        /\ UNCHANGED eres
  /\ UNCHANGED <<otherVars, output_file, written, aes_available, src, dst,
                 parent, backup_dir, archive, temp_dir, password,
                 opencode_release, i, extract, pending, cres, dst0, parent0,
                 cpw>>

\* temp_dir.mkdir(exist_ok=True), first statement of the try block.
ExportMkdir ==
  /\ pc = "e_mkdir"
  /\ \/ /\ temp_dir' = EmptyTree
        /\ pc' = IF password # 0 THEN "e_unzip" ELSE "e_plain"
        /\ UNCHANGED pending
     \/ /\ pending' = "raise"
        /\ pc' = "e_finally"
        /\ UNCHANGED temp_dir
  /\ UNCHANGED <<otherVars, output_file, written, aes_available, src, dst,
                 parent, backup_dir, archive, password, opencode_release, i,
                 extract, cres, eres, dst0, parent0, cpw>>

\* An extraction error that is caught and ignored.
ExtractFailureSwallowed == "e_slot"

\* Where control goes when the last extraction attempt raised: the exception
\* leaves the try block.
ExtractFailurePc == "e_finally"

\* if password: subprocess.run(["unzip", "-P", password, "-d", temp_dir, zip_file],
\* check=True) except subprocess.CalledProcessError: fall through to zipfile.
ExportUnzip ==
  /\ pc = "e_unzip"
  /\ \/ /\ UnzipOk(archive, password)                   \* unzip exits 0
        /\ temp_dir' = ExtractInto(temp_dir, archive.entries)
        /\ extract' = "ok"
        /\ pc' = "e_slot"
        /\ UNCHANGED pending
     \/ /\ ~ UnzipOk(archive, password)                 \* CalledProcessError;
        /\ temp_dir' = IF archive.ok                    \* what could be decoded
                       THEN ExtractInto(temp_dir, Decodable(archive, password))
                       ELSE temp_dir                    \* has been extracted
        /\ pc' = "e_zipfile"
        /\ UNCHANGED <<extract, pending>>
     \/ /\ pc' = "e_zipfile"                            \* unzip exits non-zero
        /\ UNCHANGED <<temp_dir, extract, pending>>     \* for another reason
     \/ /\ extract' = "failed"                          \* unzip cannot be run:
        /\ pending' = "raise"                           \* FileNotFoundError
        /\ pc' = ExtractFailurePc
        /\ UNCHANGED temp_dir
  /\ UNCHANGED <<otherVars, output_file, written, aes_available, src, dst,
                 parent, backup_dir, archive, password, opencode_release, i,
                 cres, eres, dst0, parent0, cpw>>

\* with zipfile.ZipFile(zip_file) as zipf: zipf.extractall(temp_dir, pwd=...)
ExportZipfile ==
  /\ pc = "e_zipfile"
  /\ \/ /\ ZipfileOk(archive, password)
        /\ temp_dir' = ExtractInto(temp_dir, archive.entries)
        /\ extract' = "ok"
        /\ pc' = "e_slot"
        /\ UNCHANGED pending
     \/ /\ extract' = "failed"       \* bad password, bad file, I/O error
        /\ pending' = "raise"
        /\ pc' = ExtractFailurePc
        /\ UNCHANGED temp_dir
  /\ UNCHANGED <<otherVars, output_file, written, aes_available, src, dst,
                 parent, backup_dir, archive, password, opencode_release, i,
                 cres, eres, dst0, parent0, cpw>>

\* else: with zipfile.ZipFile(zip_file) as zipf: zipf.extractall(temp_dir)
ExportPlain ==
  /\ pc = "e_plain"
  /\ \/ /\ ZipfileOk(archive, 0)
        /\ temp_dir' = ExtractInto(temp_dir, archive.entries)
        /\ extract' = "ok"
        /\ pc' = "e_slot"
        /\ UNCHANGED pending
     \/ /\ extract' = "failed"       \* password required, bad file, I/O error
        /\ pending' = "raise"
        /\ pc' = ExtractFailurePc
        /\ UNCHANGED temp_dir
  /\ UNCHANGED <<otherVars, output_file, written, aes_available, src, dst,
                 parent, backup_dir, archive, password, opencode_release, i,
                 cres, eres, dst0, parent0, cpw>>

\* Leaving the slot at index i: on to the next one, or to the end of the try
\* block after the last.
NextSlot ==
  /\ i' = IF i < Len(SlotOrder) THEN i + 1 ELSE i
  /\ pc' = IF i < Len(SlotOrder) THEN "e_slot" ELSE "e_finally"
  /\ pending' = IF i < Len(SlotOrder) THEN pending ELSE "return"

\* else: print("Warning: ... directory not found in zip file")
ExportSkip ==
  /\ pc = "e_slot"
  /\ ~ temp_dir.sub[SlotOrder[i]].ex
  /\ NextSlot
  /\ UNCHANGED <<otherVars, output_file, written, aes_available, src, dst,
                 parent, backup_dir, archive, temp_dir, password,
                 opencode_release, extract, cres, eres, dst0, parent0, cpw>>

\* A restore that copies over the destination without removing it.
AfterRemoveKept(d) == d

\* shutil.rmtree(dest): the directory and all it holds are gone.
AfterRemove(d) == NoDir

\* if src.exists(): if dest.exists(): shutil.rmtree(dest)
ExportRemove ==
  /\ pc = "e_slot"
  /\ temp_dir.sub[SlotOrder[i]].ex
  /\ LET s == SlotOrder[i] IN
     \/ /\ dst[s].ex
        /\ dst' = [dst EXCEPT ![s] = AfterRemove(dst[s])]
        /\ pc' = "e_parent"
        /\ UNCHANGED pending
     \/ /\ ~ dst[s].ex
        /\ pc' = "e_parent"
        /\ UNCHANGED <<dst, pending>>
     \/ /\ dst[s].ex                 \* rmtree raises
        /\ pending' = "raise"
        /\ pc' = "e_finally"
        /\ UNCHANGED dst
  /\ UNCHANGED <<otherVars, output_file, written, aes_available, src, parent,
                 backup_dir, archive, temp_dir, password, opencode_release, i,
                 extract, cres, eres, dst0, parent0, cpw>>

\* dest.parent.mkdir(parents=True, exist_ok=True)
ExportMkParent ==
  /\ pc = "e_parent"
  /\ \/ /\ parent' = parent \cup {SlotOrder[i]}
        /\ pc' = "e_copy"
        /\ UNCHANGED pending
     \/ /\ pending' = "raise"
        /\ pc' = "e_finally"
        /\ UNCHANGED parent
  /\ UNCHANGED <<otherVars, output_file, written, aes_available, src, dst,
                 backup_dir, archive, temp_dir, password, opencode_release, i,
                 extract, cres, eres, dst0, parent0, cpw>>

\* shutil.copytree(src, dest): dest must not exist; it becomes a copy of src.
ExportCopy ==
  /\ pc = "e_copy"
  /\ LET s == SlotOrder[i] IN
     \/ /\ ~ dst[s].ex
        /\ dst' = [dst EXCEPT ![s] = temp_dir.sub[s]]
        /\ NextSlot
     \/ /\ dst' = [dst EXCEPT ![s] = IF dst[s].ex THEN dst[s] ELSE Dir({})]
        /\ pending' = "raise"        \* copytree raises (part-way, or at once
        /\ pc' = "e_finally"         \* with FileExistsError)
        /\ UNCHANGED i
  /\ UNCHANGED <<otherVars, output_file, written, aes_available, src, parent,
                 backup_dir, archive, temp_dir, password, opencode_release,
                 extract, cres, eres, dst0, parent0, cpw>>

\* finally: if temp_dir.exists(): shutil.rmtree(temp_dir)
ExportFinally ==
  /\ pc = "e_finally"
  /\ \/ /\ RunsCleanup(pending, temp_dir)
        /\ temp_dir' = NoTree
        /\ eres' = Outcome(pending)
     \/ /\ RunsCleanup(pending, temp_dir)               \* rmtree raises
        /\ eres' = CleanupRaised(pending)
        /\ temp_dir' = Leftover(temp_dir)
     \/ /\ ~ RunsCleanup(pending, temp_dir)
        /\ eres' = Outcome(pending)
        /\ UNCHANGED temp_dir
  /\ pc' = "e_done"
  /\ UNCHANGED <<otherVars, output_file, written, aes_available, src, dst,
                 parent, backup_dir, archive, password, opencode_release, i,
                 extract, pending, cres, dst0, parent0, cpw>>

Next ==
  \/ CollectCall
  \/ DownloadRelease
  \/ CollectMkdir
  \/ CollectCopy
  \/ CollectZip
  \/ CollectPlain
  \/ CollectFinally
  \/ ExportCall
  \/ ExportCheck
  \/ ExportMkdir
  \/ ExportUnzip
  \/ ExportZipfile
  \/ ExportPlain
  \/ ExportSkip
  \/ ExportRemove
  \/ ExportMkParent
  \/ ExportCopy
  \/ ExportFinally

Spec == Init /\ [][Next]_vars

----------------------------------------------------------------------------
(* Overlapping invocations of collect from one working directory. Each      *)
(* invocation runs collect's staging: timestamp, mkdir, the three copies,   *)
(* the archive writer reading the staging tree, the cleanup. A staged item  *)
(* is <<slot, invocation that copied it>>.                                  *)

\* The main pipeline's variables, but for src, while it is not running.
MainAtRest ==
  /\ dst = [s \in Slots |-> NoDir]
  /\ parent = {}
  /\ archive = NoArchive
  /\ backup_dir = NoTree
  /\ temp_dir = NoTree
  /\ password = 0
  /\ opencode_release = "none"
  /\ i = 1
  /\ extract = "none"
  /\ pending = "none"
  /\ cres = "none"
  /\ eres = "none"
  /\ pc = "idle"
  /\ dst0 = dst
  /\ parent0 = parent
  /\ cpw = 0
  /\ output_file = "none"
  /\ written = "none"
  /\ aes_available = FALSE

InitShared ==
  /\ src \in [Slots -> {NoDir, Dir(SrcFiles)}]
  /\ MainAtRest
  /\ SharedInit
  /\ DownloadIdle

\* Half a second passes.
Tick ==
  /\ clock < MaxClock
  /\ clock' = clock + 1
  /\ UNCHANGED <<timestamp, staging, at, spc, spending, zipped, removed>>
  /\ UNCHANGED <<mainVars, downloadVars>>

\* timestamp = datetime.now().strftime("%Y%m%d_%H%M%S")
\* backup_dir = Path(f"opencode_backup_{timestamp}")
TakeTimestamp(p) ==
  /\ spc[p] = "idle"
  /\ timestamp' = [timestamp EXCEPT ![p] = Stamp(clock)]
  /\ spc' = [spc EXCEPT ![p] = "s_mkdir"]
  /\ UNCHANGED <<clock, staging, at, spending, zipped, removed>>
  /\ UNCHANGED <<mainVars, downloadVars>>

\* backup_dir.mkdir(exist_ok=True): a directory of that name that is already
\* there is taken over as it is.
StageMkdir(p) ==
  /\ spc[p] = "s_mkdir"
  /\ staging' = [staging EXCEPT ![timestamp[p]].ex = TRUE]
  /\ spc' = [spc EXCEPT ![p] = "s_copy"]
  /\ UNCHANGED <<clock, timestamp, at, spending, zipped, removed>>
  /\ UNCHANGED <<mainVars, downloadVars>>

\* if src.exists(): shutil.copytree(src, backup_dir / slot): copytree creates
\* the missing parents of its destination and raises FileExistsError when the
\* destination exists.
StageCopy(p) ==
  /\ spc[p] = "s_copy"
  /\ LET t == timestamp[p]
         s == SlotOrder[at[p]]
         last == at[p] = Len(SlotOrder)
     IN
     \/ /\ src[s].ex
        /\ ~ \E it \in staging[t].items : it[1] = s
        /\ staging' = [staging EXCEPT ![t] = [ex |-> TRUE, items |-> @.items \cup {<<s, p>>}]]
        /\ at' = [at EXCEPT ![p] = IF last THEN @ ELSE @ + 1]
        /\ spc' = [spc EXCEPT ![p] = IF last THEN "s_archive" ELSE "s_copy"]
        /\ UNCHANGED spending
     \/ /\ src[s].ex
        /\ \E it \in staging[t].items : it[1] = s
        /\ spending' = [spending EXCEPT ![p] = "raise"]
        /\ spc' = [spc EXCEPT ![p] = "s_finally"]
        /\ UNCHANGED <<staging, at>>
     \/ /\ ~ src[s].ex
        /\ at' = [at EXCEPT ![p] = IF last THEN @ ELSE @ + 1]
        /\ spc' = [spc EXCEPT ![p] = IF last THEN "s_archive" ELSE "s_copy"]
        /\ UNCHANGED <<staging, spending>>
  /\ UNCHANGED <<clock, timestamp, zipped, removed>>
  /\ UNCHANGED <<mainVars, downloadVars>>

\* The archive writer (zip -r . with cwd=backup_dir, or os.walk(backup_dir))
\* stores whatever the staging tree holds; when the tree is gone zip cannot
\* be started, and os.walk finds nothing.
StageArchive(p) ==
  /\ spc[p] = "s_archive"
  /\ LET t == timestamp[p] IN
     \/ /\ zipped' = [zipped EXCEPT ![p] = staging[t].items]
        /\ spending' = [spending EXCEPT ![p] = "return"]
     \/ /\ ~ staging[t].ex
        /\ spending' = [spending EXCEPT ![p] = "raise"]
        /\ UNCHANGED zipped
  /\ spc' = [spc EXCEPT ![p] = "s_finally"]
  /\ UNCHANGED <<clock, timestamp, staging, at, removed>>
  /\ UNCHANGED <<mainVars, downloadVars>>

\* finally: if backup_dir.exists(): shutil.rmtree(backup_dir)
StageCleanup(p) ==
  /\ spc[p] = "s_finally"
  /\ LET t == timestamp[p] IN
     /\ removed' = [removed EXCEPT ![p] = IF RunsCleanup(spending[p], staging[t])
                                          THEN staging[t].items ELSE {}]
     /\ staging' = [staging EXCEPT ![t] = IF RunsCleanup(spending[p], staging[t])
                                          THEN NoStage ELSE @]
  /\ spc' = [spc EXCEPT ![p] = "s_done"]
  /\ UNCHANGED <<clock, timestamp, at, spending, zipped>>
  /\ UNCHANGED <<mainVars, downloadVars>>

NextShared ==
  \/ Tick
  \/ \E p \in Procs : TakeTimestamp(p)
  \/ \E p \in Procs : StageMkdir(p)
  \/ \E p \in Procs : StageCopy(p)
  \/ \E p \in Procs : StageArchive(p)
  \/ \E p \in Procs : StageCleanup(p)

SpecShared == InitShared /\ [][NextShared]_vars

----------------------------------------------------------------------------
(* download_claude() of download_binaries.py. A file is a record            *)
(* [ex, chunks, body, by]: chunks of the body's MaxChunks chunks are on     *)
(* disk, body names the complete content by its digest, by says who wrote   *)
(* the file. A checksum string is a record [digest, upper]: the digest it   *)
(* spells and whether it is spelled in upper-case hex.                      *)

MaxHash == 2

MaxChunks == 2

Digests == 1..MaxHash

Checksums == [digest : Digests, upper : BOOLEAN]

\* str.lower()
Lower(c) == [c EXCEPT !.upper = FALSE]

\* hashlib.sha256 over the file, hexdigest(): lower-case; a truncated body has
\* the digest of no complete content (0).
Sha256(f) == [digest |-> IF f.chunks = MaxChunks THEN f.body ELSE 0, upper |-> FALSE]

\* A claude.exe left in the working directory by an earlier run.
EarlierFiles == {[ex |-> TRUE, chunks |-> MaxChunks, body |-> d, by |-> "earlier"] : d \in Digests}

InitDownload ==
  /\ src = [s \in Slots |-> NoDir]
  /\ MainAtRest
  /\ SharedInit
  /\ dpc = "d_idle"
  /\ checksum = "unset"
  /\ served \in Digests
  /\ claude_exe \in {NoFile} \cup EarlierFiles
  /\ dres = "none"

DownloadClaudeCall ==
  /\ dpc = "d_idle"
  /\ dpc' = "d_version"
  /\ UNCHANGED <<checksum, served, claude_exe, dres>>
  /\ UNCHANGED <<mainVars, sharedVars>>

\* requests.get(f"{GCS_BUCKET}/latest"); except Exception: return False
FetchVersion ==
  /\ dpc = "d_version"
  /\ \/ /\ dpc' = "d_manifest"
        /\ UNCHANGED dres
     \/ /\ dres' = "False"
        /\ dpc' = "d_done"
  /\ UNCHANGED <<checksum, served, claude_exe>>
  /\ UNCHANGED <<mainVars, sharedVars>>

\* manifest.get("platforms", {}).get(PLATFORM, {}).get("checksum");
\* if not checksum: return False; except Exception: return False
FetchManifest ==
  /\ dpc = "d_manifest"
  /\ \/ /\ \E c \in Checksums : checksum' = c
        /\ dpc' = "d_request"
        /\ UNCHANGED dres
     \/ /\ checksum' = "missing"
        /\ dres' = "False"
        /\ dpc' = "d_done"
     \/ /\ dres' = "False"          \* the request or the JSON decoding raised
        /\ dpc' = "d_done"
        /\ UNCHANGED checksum
  /\ UNCHANGED <<served, claude_exe>>
  /\ UNCHANGED <<mainVars, sharedVars>>

\* download_file: requests.get(url, stream=True); raise_for_status();
\* open(output_path, "wb") truncates what is there.
DownloadFileOpen ==
  /\ dpc = "d_request"
  /\ \/ /\ claude_exe' = [ex |-> TRUE, chunks |-> 0, body |-> served, by |-> "call"]
        /\ dpc' = "d_stream"
        /\ UNCHANGED dres
     \/ /\ dres' = "False"          \* except Exception: return False
        /\ dpc' = "d_done"
        /\ UNCHANGED claude_exe
  /\ UNCHANGED <<checksum, served>>
  /\ UNCHANGED <<mainVars, sharedVars>>

\* for chunk in response.iter_content(...): f.write(chunk)
DownloadFileChunk ==
  /\ dpc = "d_stream"
  /\ \/ /\ claude_exe.chunks < MaxChunks
        /\ claude_exe' = [claude_exe EXCEPT !.chunks = @ + 1]
        /\ UNCHANGED <<dpc, dres>>
     \/ /\ dpc' = "d_verify"        \* the stream ends (early, when the
        /\ UNCHANGED <<claude_exe, dres>>  \* connection closes silently)
     \/ /\ claude_exe.chunks < MaxChunks   \* the stream or the write raises:
        /\ dres' = "False"                 \* download_file returns False and
        /\ dpc' = "d_done"                 \* download_claude returns False
        /\ UNCHANGED claude_exe
  /\ UNCHANGED <<checksum, served>>
  /\ UNCHANGED <<mainVars, sharedVars>>

\* if actual_checksum != checksum.lower(): output_path.unlink(); return False
\* ... return True
VerifyChecksum ==
  /\ dpc = "d_verify"
  /\ IF Sha256(claude_exe) = Lower(checksum)
     THEN dres' = "True" /\ UNCHANGED claude_exe
     ELSE dres' = "False" /\ claude_exe' = NoFile
  /\ dpc' = "d_done"
  /\ UNCHANGED <<checksum, served>>
  /\ UNCHANGED <<mainVars, sharedVars>>

NextDownload ==
  \/ DownloadClaudeCall
  \/ FetchVersion
  \/ FetchManifest
  \/ DownloadFileOpen
  \/ DownloadFileChunk
  \/ VerifyChecksum

SpecDownload == InitDownload /\ [][NextDownload]_vars

----------------------------------------------------------------------------
(* Properties *)

\* The slot has an entry in the archive.
SlotInArchive(s) == \E e \in archive.entries : e[1] = s

\* The files and directories the archive holds under the slot's folder.
ArchiveNodes(s) == {<<e[2], e[3]>> : e \in {f \in archive.entries : f[1] = s /\ f[2] # "."}}

ExportPcsAfterCheck ==
  {"e_mkdir", "e_unzip", "e_zipfile", "e_plain", "e_slot", "e_parent", "e_copy",
   "e_finally", "e_done"}

\* C1: round trip. When collect(password=P) returned and export(archive,
\* password=P) then completed, every destination slot whose source existed
\* at collection time holds exactly the tree its source held (same paths,
\* same contents, empty sub-directories included).
C1_RoundTrip ==
  (pc = "e_done" /\ cres = "returned" /\ eres = "returned" /\ password = cpw)
    => \A s \in Slots : src[s].ex => dst[s] = src[s]

C3_ExtractFailure ==
  extract = "failed" =>
    /\ dst = dst0
    /\ parent = parent0
    /\ pc \in {"e_finally", "e_done"}
    /\ pc = "e_done" => eres \in {"primary_error", "cleanup_error"}

\* Export ended after a wrong password was rejected by both extraction
\* attempts, with a destination in place for a slot of the archive.
C3_Witness ==
  /\ pc = "e_done" /\ extract = "failed" /\ password # 0
  /\ \E e \in archive.entries : e[4] # 0 /\ e[4] # password
  /\ \E s \in Slots : dst0[s].ex /\ SlotInArchive(s)

\* C4: when the archive path does not exist, export exits with code 1 and
\* nothing else happens: no restore tree is created, no extraction is
\* attempted, no destination directory (nor its parent) is touched.
C4_MissingArchive ==
  (pc \in ExportPcsAfterCheck /\ ~ archive.ex) =>
    /\ pc = "e_done" /\ eres = "exit1"
    /\ ~ temp_dir.ex
    /\ extract = "none"
    /\ dst = dst0
    /\ parent = parent0

\* Export exited with code 1 on a machine that has a destination directory.
C4_Witness ==
  /\ pc = "e_done" /\ eres = "exit1" /\ ~ archive.ex
  /\ \E s \in Slots : dst[s].ex

\* C5: destructive restore. After a successful export the destination of
\* every slot present in the archive holds exactly the archive's tree for
\* that slot: every entry is there, and nothing is there but the entries and
\* the folders leading to them; and the copy into a destination only ever
\* starts with the earlier destination gone.
C5_DestructiveRestore ==
  /\ (pc = "e_done" /\ eres = "returned") =>
       \A s \in Slots : SlotInArchive(s) =>
         /\ dst[s].ex
         /\ ArchiveNodes(s) \subseteq dst[s].nodes
         /\ \A n \in dst[s].nodes :
              \/ n \in ArchiveNodes(s)
              \/ n[2] = "dir" /\ \E m \in ArchiveNodes(s) : ParentOf(m[1]) = n[1]
  /\ pc \in {"e_parent", "e_copy"} => ~ dst[SlotOrder[i]].ex

\* Export succeeded and a file that was in a destination before is gone.
C5_Witness ==
  /\ pc = "e_done" /\ eres = "returned"
  /\ \E s \in Slots :
       /\ SlotInArchive(s)
       /\ dst0[s].ex
       /\ \E n \in dst0[s].nodes : n \notin dst[s].nodes

\* C6: partial source. For a slot whose source directory is absent at
\* collection time: the archive of a collect that returned has no entry
\* under that slot's folder, and the export of that archive leaves the
\* slot's destination as it was.
C6_PartialSource ==
  \A s \in Slots : (~ src[s].ex /\ cres = "returned") =>
    /\ ~ SlotInArchive(s)
    /\ dst[s] = dst0[s]

\* C7: per-slot independence. When export has ended after a successful
\* extraction, every slot present in the archive has been reached by the
\* restore (i is the index of the last slot export handled), whatever failed
\* at an earlier slot.
C7_SlotIndependence ==
  (pc = "e_done" /\ extract = "ok") =>
    \A k \in 1..Len(SlotOrder) : SlotInArchive(SlotOrder[k]) => k <= i

\* C8: with a password, the attempt to write the encrypted archive with the
\* external zip tool never ends collect: either it succeeds, or collect
\* goes on to write the unencrypted archive - whether the tool exited with an
\* error or could not be run at all.
C8_ZipFallback ==
  [][pc = "c_zip" => (pending' = "return" \/ pc' = "c_plain")]_vars

\* C9: when none of the three source directories exists, collect does not
\* return an archive path as a success.
C9_NoSourceFails ==
  (pc = "c_done" /\ \A s \in Slots : ~ src[s].ex) => cres # "returned"

\* C10: cleanup is best effort. The outcome of collect and of export is the
\* outcome of its try block - the archive path or normal completion when
\* that ended normally, the primary failure when it raised - also when the
\* removal of the temporary tree fails.
C10_CleanupBestEffort ==
  /\ pc = "c_done" => cres = Outcome(pending)
  /\ (pc = "e_done" /\ eres # "exit1") => eres = Outcome(pending)

\* The entry's name is relative, starts with one of the three folder names and
\* does not carry the staging tree's name.
EntryNameCanonical(e) == e[1] \in Slots /\ e[1] # BackupDirName /\ e[2] # BackupDirName

\* The entry stands for a node of its slot's source directory, at the path
\* that node has below the source directory.
EntryMirrorsSource(e) ==
  \/ e[2] = "." /\ src[e[1]].ex
  \/ <<e[2], e[3]>> \in src[e[1]].nodes

\* C11: archive layout. In the archive at the path collect returned, in both
\* modes, every entry's name is relative, starts with config, cache or
\* bun_cache and never contains the staging tree's name, and every entry
\* mirrors the relative path of a file (or folder) of its source directory.
C11_ArchiveLayout ==
  (pc = "c_done" /\ cres = "returned") =>
    \A e \in archive.entries : EntryNameCanonical(e) /\ EntryMirrorsSource(e)

\* The part of the layout that concerns names only.
LayoutNames ==
  (pc = "c_done" /\ cres = "returned") =>
    \A e \in archive.entries : EntryNameCanonical(e)

\* C12: when collect returns normally, the path it returns (the output path
\* the caller gave, else the default opencode_backup_<timestamp>.zip) is the
\* file its archive writer wrote, and an archive exists there - in both
\* modes, for a relative and for an absolute output path.
C12_ReturnedPath ==
  (pc = "c_done" /\ cres = "returned") =>
    /\ written = "zip_filename"
    /\ archive.ex /\ archive.ok

\* How an entry is protected: `zip -P` applies zip's traditional password
\* cipher (ZipCrypto); zipfile's writer cannot encrypt. No writer in collect
\* produces an AES entry.
Scheme(e) == IF e[4] = 0 THEN "none" ELSE "zipcrypto"

\* The file entries this call of collect put into the archive.
WrittenFiles ==
  {e \in archive.entries : e[3] # "dir" /\ <<e[2], e[3]>> \in src[e[1]].nodes}

\* C13: strong encryption is preferred on the write path. Whenever collect is
\* given a password and an AES-capable backend is available, the files of the
\* archive it returns are AES-encrypted; the legacy scheme or no encryption
\* is used only when no AES-capable backend is available.
C13_StrongEncryption ==
  (pc = "c_done" /\ cres = "returned" /\ written = "zip_filename"
     /\ cpw # 0 /\ aes_available) =>
    \A e \in WrittenFiles : Scheme(e) = "aes"

\* The positions of export's restore phase.
RestorePcs == {"e_slot", "e_parent", "e_copy"}

\* C14: read-path fallback order. With a password the first backend (unzip)
\* is attempted once, from the start of the try block; the second (zipfile)
\* is attempted exactly when the first failed, whatever the failure; the
\* restore starts only after one of the two succeeded; the export fails for
\* its extraction only after both failed. Without a password there is one
\* plain extraction and no fallback.
C14_ReadFallback ==
  [][ /\ pc' = "e_unzip" => (pc = "e_mkdir" /\ password # 0)
      /\ pc = "e_unzip" => \/ extract' = "ok" /\ pc' = "e_slot"
                           \/ extract' # "ok" /\ pc' = "e_zipfile"
      /\ pc' = "e_zipfile" => (pc = "e_unzip" /\ extract' # "ok")
      /\ (pc' = "e_slot" /\ pc \notin RestorePcs) =>
           (pc \in {"e_unzip", "e_zipfile", "e_plain"} /\ extract' = "ok")
      /\ (extract' = "failed" /\ password # 0) => pc \in {"e_zipfile", "e_finally", "e_done"}
      /\ pc' = "e_plain" => (pc = "e_mkdir" /\ password = 0)
      /\ pc = "e_plain" => \/ extract' = "ok" /\ pc' = "e_slot"
                           \/ extract' = "failed" /\ pc' = "e_finally"
    ]_vars

\* C15: write-path mode exclusivity. Without a password the zip tool is never
\* invoked and the archive is written by the unencrypted writer. With a
\* password the zip tool is attempted first, and the unencrypted writer runs
\* exactly when that attempt failed; so the unencrypted writer never runs
\* after the zip tool has written the archive in the same call.
C15_WriteExclusive ==
  [][ /\ pc' = "c_zip" => cpw' # 0
      /\ (cpw = 0 /\ written' # written) => pc = "c_plain"
      /\ (pc' = "c_plain" /\ cpw # 0) => pc = "c_zip"
      /\ pc = "c_zip" => \/ written' # "none" /\ pending' = "return" /\ pc' = "c_finally"
                         \/ written' = "none" /\ pc' = "c_plain"
      /\ pc = "c_plain" => written = "none"
    ]_vars

\* C16: non-atomic replacement. No destination is changed unless the archive
\* was extracted successfully; and between the removal and the copy of a slot
\* (where an interrupted export stops) that slot's destination is absent, the
\* earlier slots hold what the archive has for them (or are as they were,
\* when the archive has nothing for them), and the later slots are unchanged.
C16_NonAtomic ==
  /\ (dst # dst0 \/ pc \in {"e_parent", "e_copy"}) => extract = "ok"
  /\ pc \in {"e_parent", "e_copy"} =>
       /\ ~ dst[SlotOrder[i]].ex
       /\ \A k \in 1..(i - 1) :
            dst[SlotOrder[k]] = IF SlotInArchive(SlotOrder[k])
                                THEN Extracted(archive.entries).sub[SlotOrder[k]]
                                ELSE dst0[SlotOrder[k]]
       /\ \A k \in (i + 1)..Len(SlotOrder) : dst[SlotOrder[k]] = dst0[SlotOrder[k]]

\* Export stands between the removal and the copy of the second slot: the
\* first slot was replaced, the second was there and is gone, the third is
\* still the old one.
C16_Witness ==
  /\ pc = "e_copy" /\ i = 2
  /\ dst0[SlotOrder[2]].ex /\ ~ dst[SlotOrder[2]].ex
  /\ dst0[SlotOrder[1]].ex /\ dst[SlotOrder[1]] # dst0[SlotOrder[1]] /\ dst[SlotOrder[1]].ex
  /\ dst[SlotOrder[3]].ex

\* The place of a slot in the order the restore is to follow.
RestoreRank(s) == CASE s = "config" -> 1 [] s = "cache" -> 2 [] s = "bun_cache" -> 3

\* C17: restore order. Export handles the destinations in the order config,
\* cache, bun_cache: every step that changes a slot's destination (or creates
\* its parent) is a step of the restore phase on the slot whose turn it is,
\* the turn only moves forward by one, and so nothing happens to a later
\* slot's destination before the earlier slots are finished.
C17_RestoreOrder ==
  [][ /\ \A s \in Slots :
           (dst'[s] # dst[s] \/ (s \in parent') # (s \in parent)) =>
             (pc \in RestorePcs /\ RestoreRank(s) = i)
      /\ (pc \in RestorePcs /\ i' # i) => (i' = i + 1 /\ pc' = "e_slot")
    ]_vars

\* All three destinations have been replaced and export is about to end.
C17_Witness ==
  /\ pc = "e_finally" /\ pending = "return"
  /\ \A s \in Slots : dst0[s].ex /\ dst[s].ex /\ dst[s] # dst0[s]

\* The positions of collect after the release download.
CollectPcsAfterDownload == {"c_mkdir", "c_copy", "c_zip", "c_plain", "c_finally", "c_done"}

Staging(p) == spc[p] \in {"s_copy", "s_archive", "s_finally"}

\* C18: exclusive ownership of the temporary tree. Two invocations of collect
\* from the same working directory, also when they start within the same
\* clock second, use distinct staging directories; so no invocation archives
\* or deletes a file another invocation staged.
C18_ExclusiveTemp ==
  /\ \A p \in Procs : \A q \in Procs :
       (p # q /\ Staging(p) /\ Staging(q)) => timestamp[p] # timestamp[q]
  /\ \A p \in Procs : \A it \in zipped[p] \cup removed[p] : it[2] = p

\* claude.exe is on disk, written by this call of download_claude.
WrittenByCall == claude_exe.ex /\ claude_exe.by = "call"

\* The file's SHA-256 is the manifest's checksum, letter case aside.
ChecksumVerified ==
  /\ checksum \in Checksums
  /\ Sha256(claude_exe).digest = checksum.digest

\* C19: download integrity. download_claude returns True only if the SHA-256
\* of the downloaded claude.exe equals the manifest's checksum for win32-x64
\* (compared case-insensitively); and after it has returned, on any path, a
\* claude.exe written by that call is on disk only if its checksum was
\* verified.
C19_VerifiedBinary ==
  /\ dres = "True" => (WrittenByCall /\ ChecksumVerified)
  /\ (dpc = "d_done" /\ WrittenByCall) => ChecksumVerified

\* The first half of C19 alone.
TrueOnlyIfVerified == dres = "True" => (WrittenByCall /\ ChecksumVerified)

====
